---- MODULE Spec2Model ----
(***************************************************************************)
(* Model of upnp-wan-exporter-rs: the UPnP client (src/src/upnp.rs), the   *)
(* metrics collector (src/src/metrics.rs) and the HTTP handlers            *)
(* (src/src/server.rs).                                                    *)
(*                                                                         *)
(* Text is a sequence of tokens.  The tokenisation is fixed: ":" and " "   *)
(* are always tokens of their own, a decimal digit is a token of its own,  *)
(* and the words "http", "WANCommonInterfaceConfig" and "WANIPConnection"  *)
(* are tokens of their own wherever they occur, so that starts_with,       *)
(* contains, split(':') and parse::<u64> are computed on the tokens.       *)
(***************************************************************************)
EXTENDS Integers, Sequences, FiniteSets, TLC

----------------------------------------------------------------------------
(* Option and Result values *)

None == [some |-> FALSE]
Some(x) == [some |-> TRUE, v |-> x]
Ok(x) == [ok |-> TRUE, v |-> x]
Err(e) == [ok |-> FALSE, e |-> e]

----------------------------------------------------------------------------
(* Text helpers (Rust str methods on token sequences) *)

starts_with_http(s) == Len(s) >= 1 /\ s[1] = "http"

contains(s, word) == \E i \in 1..Len(s) : s[i] = word

to_lowercase(tok) ==
    CASE tok = "LOCATION" -> "location"
      [] tok = "Location" -> "location"
      [] tok = "LoCaTiOn" -> "location"
      [] tok = "LOCATIONS" -> "locations"
      [] tok = "ST"       -> "st"
      [] OTHER            -> tok

\* str::split(':'): the segments between the ":" tokens
RECURSIVE split_colon(_)
split_colon(s) ==
    IF \A i \in 1..Len(s) : s[i] # ":"
    THEN <<s>>
    ELSE LET i == CHOOSE j \in 1..Len(s) :
                    s[j] = ":" /\ \A k \in 1..(j - 1) : s[k] # ":"
         IN  <<SubSeq(s, 1, i - 1)>> \o split_colon(SubSeq(s, i + 1, Len(s)))

\* [..].join(":")
RECURSIVE join_colon(_)
join_colon(parts) ==
    IF Len(parts) = 0 THEN <<>>
    ELSE IF Len(parts) = 1 THEN parts[1]
    ELSE parts[1] \o <<":">> \o join_colon(Tail(parts))

\* str::trim(): drop leading and trailing whitespace tokens
RECURSIVE trim(_)
trim(s) ==
    IF Len(s) = 0 THEN s
    ELSE IF s[1] = " " THEN trim(Tail(s))
    ELSE IF s[Len(s)] = " " THEN trim(SubSeq(s, 1, Len(s) - 1))
    ELSE s

Digits == {"0", "1", "2", "3", "4", "5", "6", "7", "8", "9"}

DigitVal(d) ==
    CASE d = "0" -> 0 [] d = "1" -> 1 [] d = "2" -> 2 [] d = "3" -> 3
      [] d = "4" -> 4 [] d = "5" -> 5 [] d = "6" -> 6 [] d = "7" -> 7
      [] d = "8" -> 8 [] d = "9" -> 9

\* Width of the unsigned counter type.  u64 is scaled to U64Width bits
\* because TLC's integers are 32 bits wide.
U64Width == 16
U64_MAX == 2^U64Width - 1

\* str::parse::<u64>(): optional leading "+", at least one digit, only
\* digits, checked against the maximum of the type
RECURSIVE parse_digits(_, _)
parse_digits(s, acc) ==
    IF Len(s) = 0 THEN Ok(acc)
    ELSE IF s[1] \notin Digits THEN Err("InvalidDigit")
    ELSE IF acc * 10 + DigitVal(s[1]) > U64_MAX THEN Err("PosOverflow")
    ELSE parse_digits(Tail(s), acc * 10 + DigitVal(s[1]))

\* the digits are accumulated modulo 2^U64Width
RECURSIVE parse_digits_wrapping(_, _)
parse_digits_wrapping(s, acc) ==
    IF Len(s) = 0 THEN Ok(acc)
    ELSE IF s[1] \notin Digits THEN Err("InvalidDigit")
    ELSE parse_digits_wrapping(Tail(s),
             (acc * 10 + DigitVal(s[1])) % (U64_MAX + 1))

parse_u64_wrapping(s) ==
    IF Len(s) = 0 THEN Err("Empty")
    ELSE parse_digits_wrapping(s, 0)

parse_u64(s) ==
    IF Len(s) = 0 THEN Err("Empty")
    ELSE IF s[1] = "+"
         THEN IF Len(s) = 1 THEN Err("InvalidDigit")
              ELSE parse_digits(Tail(s), 0)
    ELSE parse_digits(s, 0)

----------------------------------------------------------------------------
(* XML reader events (xml::reader::XmlEvent), one record shape for all *)

StartElement(n) == [k |-> "StartElement", n |-> n, t |-> <<>>]
EndElement(n)   == [k |-> "EndElement", n |-> n, t |-> <<>>]
Characters(t)   == [k |-> "Characters", n |-> "", t |-> t]
EndDocument     == [k |-> "EndDocument", n |-> "", t |-> <<>>]
XmlError        == [k |-> "Error", n |-> "", t |-> <<>>]
\* any event the consumers ignore: StartDocument, CData, Whitespace, ...
OtherEvent      == [k |-> "Other", n |-> "", t |-> <<>>]

\* <n>t</n>
Element(n, t) == <<StartElement(n), Characters(t), EndElement(n)>>

----------------------------------------------------------------------------
(* UpnpClient::extract_location *)

\* only the text between the first and the second colon is taken
RECURSIVE extract_location_to_second_colon(_)
extract_location_to_second_colon(response) ==
    IF Len(response) = 0 THEN None
    ELSE LET line == response[1]
         IN  IF /\ Len(line) >= 2
                /\ to_lowercase(line[1]) = "location"
                /\ line[2] = ":"
             THEN Some(trim(split_colon(line)[2]))
             ELSE extract_location_to_second_colon(Tail(response))

RECURSIVE extract_location(_)
extract_location(response) ==
    IF Len(response) = 0 THEN None
    ELSE LET line == response[1]
         IN  IF /\ Len(line) >= 2
                /\ to_lowercase(line[1]) = "location"
                /\ line[2] = ":"
             THEN Some(trim(join_colon(Tail(split_colon(line)))))
             ELSE extract_location(Tail(response))

----------------------------------------------------------------------------
(* UpnpClient::parse_service_urls *)

FALLBACK_BASE == <<"http", ":", "//", "192.168.3.1", ":", "1900">>

full_url(current_control_url) ==
    IF starts_with_http(current_control_url)
    THEN current_control_url
    ELSE FALLBACK_BASE \o current_control_url

PsuInit ==
    [wan_common_url |-> None, wan_ip_url |-> None,
     current_service_type |-> <<>>, current_control_url |-> <<>>,
     in_service |-> FALSE, in_service_type |-> FALSE,
     in_control_url |-> FALSE]

\* the accumulators are kept from one service to the next
psu_start_keeping(st, name) ==
    CASE name = "service" -> [st EXCEPT !.in_service = TRUE]
      [] name = "serviceType" /\ st.in_service ->
            [st EXCEPT !.in_service_type = TRUE]
      [] name = "controlURL" /\ st.in_service ->
            [st EXCEPT !.in_control_url = TRUE]
      [] OTHER -> st

psu_start(st, name) ==
    CASE name = "service" ->
            [st EXCEPT !.in_service = TRUE,
                       !.current_service_type = <<>>,
                       !.current_control_url = <<>>]
      [] name = "serviceType" /\ st.in_service ->
            [st EXCEPT !.in_service_type = TRUE]
      [] name = "controlURL" /\ st.in_service ->
            [st EXCEPT !.in_control_url = TRUE]
      [] OTHER -> st

\* a URL already recorded is kept: the first matching service wins
psu_end_first_wins(st, name) ==
    CASE name = "service" ->
            IF contains(st.current_service_type, "WANCommonInterfaceConfig")
            THEN [st EXCEPT !.wan_common_url =
                                IF st.wan_common_url.some
                                THEN st.wan_common_url
                                ELSE Some(full_url(st.current_control_url)),
                            !.in_service = FALSE]
            ELSE IF contains(st.current_service_type, "WANIPConnection")
            THEN [st EXCEPT !.wan_ip_url =
                                IF st.wan_ip_url.some
                                THEN st.wan_ip_url
                                ELSE Some(full_url(st.current_control_url)),
                            !.in_service = FALSE]
            ELSE [st EXCEPT !.in_service = FALSE]
      [] name = "serviceType" -> [st EXCEPT !.in_service_type = FALSE]
      [] name = "controlURL" -> [st EXCEPT !.in_control_url = FALSE]
      [] OTHER -> st

psu_end(st, name) ==
    CASE name = "service" ->
            IF contains(st.current_service_type, "WANCommonInterfaceConfig")
            THEN [st EXCEPT !.wan_common_url =
                                Some(full_url(st.current_control_url)),
                            !.in_service = FALSE]
            ELSE IF contains(st.current_service_type, "WANIPConnection")
            THEN [st EXCEPT !.wan_ip_url =
                                Some(full_url(st.current_control_url)),
                            !.in_service = FALSE]
            ELSE [st EXCEPT !.in_service = FALSE]
      [] name = "serviceType" -> [st EXCEPT !.in_service_type = FALSE]
      [] name = "controlURL" -> [st EXCEPT !.in_control_url = FALSE]
      [] OTHER -> st

psu_characters(st, text) ==
    IF st.in_service_type THEN [st EXCEPT !.current_service_type = text]
    ELSE IF st.in_control_url THEN [st EXCEPT !.current_control_url = text]
    ELSE st

\* the loop over reader.next(); a reader that has run out of events keeps
\* yielding EndDocument
RECURSIVE psu_loop(_, _, _)
psu_loop(xml, i, st) ==
    IF i > Len(xml) THEN st
    ELSE LET ev == xml[i]
         IN  CASE ev.k = "StartElement" ->
                      psu_loop(xml, i + 1, psu_start(st, ev.n))
               [] ev.k = "EndElement" ->
                      psu_loop(xml, i + 1, psu_end(st, ev.n))
               [] ev.k = "Characters" ->
                      psu_loop(xml, i + 1, psu_characters(st, ev.t))
               [] ev.k = "EndDocument" -> st
               [] ev.k = "Error" -> st
               [] OTHER -> psu_loop(xml, i + 1, st)

\* a parse error is passed on to the caller
parse_service_urls_failing(xml, base_url) ==
    LET st == psu_loop(xml, 1, PsuInit)
    IN  IF \E i \in 1..Len(xml) : xml[i].k = "Error"
        THEN Err("XML parsing error")
        ELSE IF ~st.wan_common_url.some
        THEN Err("WANCommonInterfaceConfig service not found")
        ELSE Ok([common |-> st.wan_common_url, ip |-> st.wan_ip_url])

\* the IP-connection URL is required as well
parse_service_urls_both(xml, base_url) ==
    LET st == psu_loop(xml, 1, PsuInit)
    IN  IF ~st.wan_common_url.some \/ ~st.wan_ip_url.some
        THEN Err("WANCommonInterfaceConfig service not found")
        ELSE Ok([common |-> st.wan_common_url, ip |-> st.wan_ip_url])

parse_service_urls(xml, base_url) ==
    LET st == psu_loop(xml, 1, PsuInit)
    IN  IF ~st.wan_common_url.some
        THEN Err("WANCommonInterfaceConfig service not found")
        ELSE Ok([common |-> st.wan_common_url, ip |-> st.wan_ip_url])

----------------------------------------------------------------------------
(* UpnpClient::parse_u64_response and parse_string_response *)

RECURSIVE parse_u64_loop(_, _, _, _)
parse_u64_loop(xml, element_name, i, in_target_element) ==
    IF i > Len(xml) THEN Err("ElementNotFound")
    ELSE LET ev == xml[i]
         IN  CASE ev.k = "StartElement" ->
                      parse_u64_loop(xml, element_name, i + 1,
                          IF ev.n = element_name THEN TRUE
                          ELSE in_target_element)
               [] ev.k = "Characters" /\ in_target_element ->
                      LET r == parse_u64(ev.t)
                      IN  IF r.ok THEN r ELSE Err("ParseError")
               [] ev.k = "EndElement" ->
                      parse_u64_loop(xml, element_name, i + 1,
                          IF ev.n = element_name THEN FALSE
                          ELSE in_target_element)
               [] ev.k = "EndDocument" -> Err("ElementNotFound")
               [] ev.k = "Error" -> Err("ElementNotFound")
               [] OTHER ->
                      parse_u64_loop(xml, element_name, i + 1,
                                     in_target_element)

\* character data is taken wherever it stands
parse_u64_response_anywhere(xml, element_name) ==
    parse_u64_loop(xml, element_name, 1, TRUE)

parse_u64_response(xml, element_name) ==
    parse_u64_loop(xml, element_name, 1, FALSE)

RECURSIVE parse_string_loop(_, _, _, _)
parse_string_loop(xml, element_name, i, in_target_element) ==
    IF i > Len(xml) THEN Err("ElementNotFound")
    ELSE LET ev == xml[i]
         IN  CASE ev.k = "StartElement" ->
                      parse_string_loop(xml, element_name, i + 1,
                          IF ev.n = element_name THEN TRUE
                          ELSE in_target_element)
               [] ev.k = "Characters" /\ in_target_element -> Ok(ev.t)
               [] ev.k = "EndElement" ->
                      parse_string_loop(xml, element_name, i + 1,
                          IF ev.n = element_name THEN FALSE
                          ELSE in_target_element)
               [] ev.k = "EndDocument" -> Err("ElementNotFound")
               [] ev.k = "Error" -> Err("ElementNotFound")
               [] OTHER ->
                      parse_string_loop(xml, element_name, i + 1,
                                        in_target_element)

\* the text is trimmed before it is returned
parse_string_response_trimmed(xml, element_name) ==
    LET r == parse_string_loop(xml, element_name, 1, FALSE)
    IN  IF r.ok THEN Ok(trim(r.v)) ELSE r

parse_string_response(xml, element_name) ==
    parse_string_loop(xml, element_name, 1, FALSE)

----------------------------------------------------------------------------
(* The environment: what the network can answer *)

LOC1 == <<"http", ":", "//", "192.168.1.1", ":", "1900", "/desc.xml">>
LOC2 == <<"http", ":", "//", "10.0.0.138", ":", "5000", "/igd.xml">>

STATUS_LINE == <<"HTTP/1.1", " ", "200", " ", "OK">>
ST_LINE == <<"ST", ":", " ", "urn", ":", "schemas-upnp-org", ":", "device",
             ":", "InternetGatewayDevice", ":", "1">>

\* SSDP datagrams, as the lines of response.lines()
SsdpResponses ==
    { <<STATUS_LINE, <<"LOCATION", ":", " ">> \o LOC1, ST_LINE>>,
      <<STATUS_LINE, ST_LINE, <<"Location", ":">> \o LOC2 \o <<" ">>>>,
      <<STATUS_LINE, ST_LINE>> }

\* outcomes of bind/set_broadcast/send_to and of timeout(recv_from)
RecvOutcomes ==
    { [kind |-> "io_error", data |-> <<>>],
      [kind |-> "socket_error", data |-> <<>>],
      [kind |-> "timeout", data |-> <<>>] }
    \cup { [kind |-> "datagram", data |-> r] : r \in SsdpResponses }

TYPE_COMMON == <<"urn", ":", "schemas-upnp-org", ":", "service", ":",
                 "WANCommonInterfaceConfig", ":", "1">>
TYPE_IP == <<"urn", ":", "schemas-upnp-org", ":", "service", ":",
             "WANIPConnection", ":", "1">>
TYPE_OTHER == <<"urn", ":", "schemas-upnp-org", ":", "service", ":",
                "Layer3Forwarding", ":", "1">>
\* a type text in which both names occur
TYPE_BOTH == <<"urn", ":", "WANCommonInterfaceConfig", ":",
               "WANIPConnection", ":", "1">>

CTL_COMMON_REL == <<"/upnp/control/WANCommonIFC1">>
CTL_COMMON_ABS == <<"http", ":", "//", "10.0.0.138", ":", "5000",
                    "/ctl/CmnIfCfg">>
CTL_IP_REL == <<"/upnp/control/WANIPConn1">>
CTL_OTHER == <<"/upnp/control/L3F">>

Service(service_type, control_url) ==
    <<StartElement("service")>> \o Element("serviceType", service_type)
        \o Element("controlURL", control_url) \o <<EndElement("service")>>

Document(body) ==
    <<OtherEvent, StartElement("root"), StartElement("device"),
      StartElement("serviceList")>> \o body
        \o <<EndElement("serviceList"), EndElement("device"),
             EndElement("root"), EndDocument>>

DOC_COMMON_REL ==
    Document(Service(TYPE_OTHER, CTL_OTHER)
                 \o Service(TYPE_COMMON, CTL_COMMON_REL))
DOC_COMMON_ABS_IP ==
    Document(Service(TYPE_COMMON, CTL_COMMON_ABS)
                 \o Service(TYPE_IP, CTL_IP_REL))
DOC_NO_COMMON == Document(Service(TYPE_IP, CTL_IP_REL))
DOC_NOT_XML == <<OtherEvent, XmlError>>

HttpFailure == [ok |-> FALSE, status |-> 0, body |-> <<>>]
HttpReply(status, body) == [ok |-> TRUE, status |-> status, body |-> body]

\* answers to the GET of the description document
DescReplies ==
    { HttpFailure,
      HttpReply(200, DOC_COMMON_REL),
      HttpReply(200, DOC_COMMON_ABS_IP),
      HttpReply(200, DOC_NO_COMMON),
      HttpReply(404, DOC_NOT_XML),
      HttpReply(500, DOC_COMMON_REL) }

SoapBody(element_name, text) ==
    <<OtherEvent, StartElement("Envelope"), StartElement("Body"),
      StartElement("Response")>> \o Element(element_name, text)
        \o <<EndElement("Response"), EndElement("Body"),
             EndElement("Envelope"), EndDocument>>

SOAP_FAULT ==
    <<OtherEvent, StartElement("Envelope"), StartElement("Body"),
      StartElement("Fault")>> \o Element("faultstring", <<"UPnPError">>)
        \o <<EndElement("Fault"), EndElement("Body"),
             EndElement("Envelope"), EndDocument>>

\* the response elements of the five actions, in the order of the queries
ELEMENT_NAMES ==
    <<"NewTotalBytesSent", "NewTotalBytesReceived", "NewTotalPacketsSent",
      "NewTotalPacketsReceived", "NewPhysicalLinkStatus">>

NumQueries == Len(ELEMENT_NAMES)

\* answers to the i-th SOAP POST
SoapReplies(i) ==
    IF i < NumQueries
    THEN { HttpFailure,
           HttpReply(200, SoapBody(ELEMENT_NAMES[i], <<"4", "2">>)),
           HttpReply(200, SoapBody(ELEMENT_NAMES[i], <<"n", "a">>)),
           HttpReply(500, SOAP_FAULT),
           HttpReply(500, SoapBody(ELEMENT_NAMES[i], <<"4", "2">>)) }
    ELSE { HttpFailure,
           HttpReply(200, SoapBody(ELEMENT_NAMES[i], <<"Up">>)),
           HttpReply(200, SoapBody(ELEMENT_NAMES[i], <<"Down">>)),
           HttpReply(500, SOAP_FAULT),
           HttpReply(500, SoapBody(ELEMENT_NAMES[i], <<"Up">>)) }

----------------------------------------------------------------------------
(* UpnpDevice, TrafficStats, the SOAP counter client *)

UpnpDevice(location, common, ip) ==
    [location |-> location, wan_common_service_url |-> common,
     wan_ip_service_url |-> ip]

TrafficStatsDefault ==
    [bytes_sent |-> 0, bytes_received |-> 0, packets_sent |-> 0,
     packets_received |-> 0, connection_status |-> <<"Disconnected">>]

\* reqwest send() and text(): only a transport failure is an error, the
\* status of the response is not looked at
soap_request(reply) ==
    IF reply.ok THEN Ok(reply.body) ELSE Err("HttpError")

get_total_bytes_sent(reply) ==
    LET response == soap_request(reply)
    IN  IF ~response.ok THEN response
        ELSE parse_u64_response(response.v, "NewTotalBytesSent")

get_total_bytes_received(reply) ==
    LET response == soap_request(reply)
    IN  IF ~response.ok THEN response
        ELSE parse_u64_response(response.v, "NewTotalBytesReceived")

get_total_packets_sent(reply) ==
    LET response == soap_request(reply)
    IN  IF ~response.ok THEN response
        ELSE parse_u64_response(response.v, "NewTotalPacketsSent")

get_total_packets_received(reply) ==
    LET response == soap_request(reply)
    IN  IF ~response.ok THEN response
        ELSE parse_u64_response(response.v, "NewTotalPacketsReceived")

get_physical_link_status(reply) ==
    LET response == soap_request(reply)
    IN  IF ~response.ok THEN response
        ELSE parse_string_response(response.v, "NewPhysicalLinkStatus")

\* the i-th query of get_traffic_stats applied to the gateway's reply
query_result(i, reply) ==
    CASE i = 1 -> get_total_bytes_sent(reply)
      [] i = 2 -> get_total_bytes_received(reply)
      [] i = 3 -> get_total_packets_sent(reply)
      [] i = 4 -> get_total_packets_received(reply)
      [] i = 5 -> get_physical_link_status(reply)

\* a failed query wipes what the earlier queries stored
store_result_wiping(i, st, r) ==
    IF ~r.ok THEN TrafficStatsDefault
    ELSE CASE i = 1 -> [st EXCEPT !.bytes_sent = r.v]
           [] i = 2 -> [st EXCEPT !.bytes_received = r.v]
           [] i = 3 -> [st EXCEPT !.packets_sent = r.v]
           [] i = 4 -> [st EXCEPT !.packets_received = r.v]
           [] i = 5 -> [st EXCEPT !.connection_status = r.v]

\* the i-th "if let Ok(..) = .. { stats.field = .. }" of get_traffic_stats
store_result(i, st, r) ==
    IF ~r.ok THEN st
    ELSE CASE i = 1 -> [st EXCEPT !.bytes_sent = r.v]
           [] i = 2 -> [st EXCEPT !.bytes_received = r.v]
           [] i = 3 -> [st EXCEPT !.packets_sent = r.v]
           [] i = 4 -> [st EXCEPT !.packets_received = r.v]
           [] i = 5 -> [st EXCEPT !.connection_status = r.v]

----------------------------------------------------------------------------
(* UpnpClient::discover_device with setup_service *)

\* a description without the common-interface service is accepted
setup_service_lenient(dev, reply) ==
    IF ~dev.some THEN Err("No device found")
    ELSE IF ~reply.ok THEN Err("HttpError")
    ELSE LET urls == parse_service_urls(reply.body, dev.v.location)
         IN  IF ~urls.ok THEN Ok(dev)
             ELSE Ok(Some(UpnpDevice(dev.v.location, urls.v.common,
                                     urls.v.ip)))

\* setup_service given the answer to the GET: the error it returns, or the
\* device it leaves in the client
setup_service(dev, reply) ==
    IF ~dev.some THEN Err("No device found")
    ELSE IF ~reply.ok THEN Err("HttpError")
    ELSE LET urls == parse_service_urls(reply.body, dev.v.location)
         IN  IF ~urls.ok THEN urls
             ELSE Ok(Some(UpnpDevice(dev.v.location, urls.v.common,
                                     urls.v.ip)))

\* a socket error is reported as a timeout
discover_device_run_merged(o, reply) ==
    LET location == IF o.kind = "datagram" THEN extract_location(o.data)
                    ELSE None
    IN  CASE o.kind = "io_error" ->
                [assigned |-> FALSE, device |-> None,
                 result |-> Err("Io error"), net |-> <<>>, heard |-> o]
          [] o.kind = "socket_error" ->
                [assigned |-> FALSE, device |-> None,
                 result |-> Err("Discovery timeout"), net |-> <<"SSDP">>,
                 heard |-> o]
          [] o.kind = "timeout" ->
                [assigned |-> FALSE, device |-> None,
                 result |-> Err("Discovery timeout"), net |-> <<"SSDP">>,
                 heard |-> o]
          [] o.kind = "datagram" /\ ~location.some ->
                [assigned |-> FALSE, device |-> None,
                 result |-> Ok(<<>>), net |-> <<"SSDP">>,
                 heard |-> o]
          [] OTHER ->
                LET found == Some(UpnpDevice(location.v, None, None))
                    r == setup_service(found, reply)
                IN  [assigned |-> TRUE,
                     device |-> IF r.ok THEN r.v ELSE found,
                     result |-> IF r.ok THEN Ok(<<>>) ELSE Err(r.e),
                     net |-> <<"SSDP",
                               IF reply.ok THEN "GET" ELSE "GET_FAILED">>,
                     heard |-> o]

\* a datagram without LOCATION is reported as an error
discover_device_run_strict(o, reply) ==
    LET location == IF o.kind = "datagram" THEN extract_location(o.data)
                    ELSE None
    IN  CASE o.kind = "io_error" ->
                [assigned |-> FALSE, device |-> None,
                 result |-> Err("Io error"), net |-> <<>>, heard |-> o]
          [] o.kind = "socket_error" ->
                [assigned |-> FALSE, device |-> None,
                 result |-> Err("Socket error"), net |-> <<"SSDP">>,
                 heard |-> o]
          [] o.kind = "timeout" ->
                [assigned |-> FALSE, device |-> None,
                 result |-> Err("Discovery timeout"), net |-> <<"SSDP">>,
                 heard |-> o]
          [] o.kind = "datagram" /\ ~location.some ->
                [assigned |-> FALSE, device |-> None,
                 result |-> Err("No location"), net |-> <<"SSDP">>,
                 heard |-> o]
          [] OTHER ->
                LET found == Some(UpnpDevice(location.v, None, None))
                    r == setup_service(found, reply)
                IN  [assigned |-> TRUE,
                     device |-> IF r.ok THEN r.v ELSE found,
                     result |-> IF r.ok THEN Ok(<<>>) ELSE Err(r.e),
                     net |-> <<"SSDP",
                               IF reply.ok THEN "GET" ELSE "GET_FAILED">>,
                     heard |-> o]

\* One call of discover_device, given what the socket and the GET yield:
\* whether client.device is assigned and to what, the result of the call,
\* the network operations it made, in order, and what the socket yielded
discover_device_run(o, reply) ==
    LET location == IF o.kind = "datagram" THEN extract_location(o.data)
                    ELSE None
    IN  CASE o.kind = "io_error" ->
                [assigned |-> FALSE, device |-> None,
                 result |-> Err("Io error"), net |-> <<>>, heard |-> o]
          [] o.kind = "socket_error" ->
                [assigned |-> FALSE, device |-> None,
                 result |-> Err("Socket error"), net |-> <<"SSDP">>,
                 heard |-> o]
          [] o.kind = "timeout" ->
                [assigned |-> FALSE, device |-> None,
                 result |-> Err("Discovery timeout"), net |-> <<"SSDP">>,
                 heard |-> o]
          [] o.kind = "datagram" /\ ~location.some ->
                [assigned |-> FALSE, device |-> None,
                 result |-> Ok(<<>>), net |-> <<"SSDP">>, heard |-> o]
          [] OTHER ->
                LET found == Some(UpnpDevice(location.v, None, None))
                    r == setup_service(found, reply)
                IN  [assigned |-> TRUE,
                     device |-> IF r.ok THEN r.v ELSE found,
                     result |-> IF r.ok THEN Ok(<<>>) ELSE Err(r.e),
                     net |-> <<"SSDP",
                               IF reply.ok THEN "GET" ELSE "GET_FAILED">>,
                     heard |-> o]

DiscoverRuns ==
    { discover_device_run(o, reply) : o \in RecvOutcomes,
                                      reply \in DescReplies }

----------------------------------------------------------------------------
(* UpnpClient::get_traffic_stats *)

\* what qres remembers of a query: its value, or that it failed
outcome(r) == IF r.ok THEN r ELSE Err("QueryFailed")

\* the first failed query ends the sequence
RECURSIVE run_queries_aborting(_, _, _, _, _)
run_queries_aborting(i, st, replies, results, posts) ==
    IF i > NumQueries
    THEN [stats |-> st, qres |-> results, net |-> posts]
    ELSE LET r == query_result(i, replies[i])
         IN  IF ~r.ok
             THEN [stats |-> st, qres |-> Append(results, outcome(r)),
                   net |-> Append(posts, "POST")]
             ELSE run_queries_aborting(i + 1, store_result(i, st, r),
                      replies, Append(results, outcome(r)),
                      Append(posts, "POST"))

\* the five queries in sequence from the i-th on: each POST is made, its
\* answer parsed and conditionally stored, whatever the earlier ones did
RECURSIVE run_queries(_, _, _, _, _)
run_queries(i, st, replies, results, posts) ==
    IF i > NumQueries
    THEN [stats |-> st, qres |-> results, net |-> posts]
    ELSE LET r == query_result(i, replies[i])
         IN  run_queries(i + 1, store_result(i, st, r), replies,
                         Append(results, outcome(r)), Append(posts, "POST"))

SoapReplySeqs ==
    { <<r1, r2, r3, r4, r5>> :
          r1 \in SoapReplies(1), r2 \in SoapReplies(2),
          r3 \in SoapReplies(3), r4 \in SoapReplies(4),
          r5 \in SoapReplies(5) }

\* every way the body of get_traffic_stats can go once the URL is there
TrafficStatsRuns ==
    { run_queries(1, TrafficStatsDefault, replies, <<>>, <<>>) :
          replies \in SoapReplySeqs }

----------------------------------------------------------------------------
(* State *)

\* concurrently served HTTP requests (each owns a fresh UpnpClient)
Scrapes == {"s1", "s2"}
\* a caller of the library that keeps one UpnpClient
User == "u"
Procs == Scrapes \cup {User}

\* HTTP requests served in a run
MaxRequests == 2
\* calls the library user makes on its client
MaxCalls == 3

VARIABLES
    pc,         \* where each process is suspended
    caller,     \* who calls discover_device / get_traffic_stats
    device,     \* UpnpClient.device of the process's client
    dres,       \* result of discover_device
    gres,       \* result of get_traffic_stats
    qres,       \* results of the SOAP queries of the last get_traffic_stats
    net,        \* network operations of the process since its cycle began
    cycle,      \* discover_device calls made on the client
    devCycle,   \* the discover_device call that assigned client.device
    heard,      \* what the socket yielded to the last discover_device
    has_error,  \* collect_metrics' local flag
    output,     \* what collect_metrics returned
    resp,       \* the HTTP response of the handler
    gauges,     \* the process-wide gauges of the REGISTRY
    requests,   \* HTTP requests accepted so far
    calls,      \* calls made by the library user
    arg,        \* the argument of a function applied on its own
    ret         \* what that function returned

vars == <<pc, caller, device, dres, gres, qres, net, cycle, devCycle,
          heard, has_error, output, resp, gauges, requests, calls, arg, ret>>

Pending == Err("Pending")
Failed(r) == ~r.ok /\ r.e # "Pending"

NoOutput == [text |-> <<>>, err |-> FALSE]
NoResp == [handler |-> "none", status |-> 0, content_type |-> "",
           body |-> <<>>]

NothingHeard == [kind |-> "none", data |-> <<>>]

GaugesInit ==
    [bytes_sent |-> 0, bytes_received |-> 0, packets_sent |-> 0,
     packets_received |-> 0, connection_status |-> 0, scrape_error |-> 0]

InitState ==
    /\ pc = [p \in Procs |-> "idle"]
    /\ caller = [p \in Procs |-> "none"]
    /\ device = [p \in Procs |-> None]
    /\ dres = [p \in Procs |-> Pending]
    /\ gres = [p \in Procs |-> Pending]
    /\ qres = [p \in Procs |-> <<>>]
    /\ net = [p \in Procs |-> <<>>]
    /\ cycle = [p \in Procs |-> 0]
    /\ devCycle = [p \in Procs |-> 0]
    /\ heard = [p \in Procs |-> NothingHeard]
    /\ has_error = [p \in Procs |-> FALSE]
    /\ output = [p \in Procs |-> NoOutput]
    /\ resp = [p \in Procs |-> NoResp]
    /\ gauges = GaugesInit
    /\ requests = 0
    /\ calls = 0

Init ==
    /\ InitState
    /\ arg = None
    /\ ret = None

----------------------------------------------------------------------------
(* The calls on a client *)

discover_device(p) ==
    /\ UNCHANGED <<arg, ret>>
    /\ pc[p] = "discover"
    /\ \E run \in DiscoverRuns :
          /\ device' = [device EXCEPT ![p] =
                 IF run.assigned THEN run.device ELSE @]
          /\ devCycle' = [devCycle EXCEPT ![p] =
                 IF run.assigned THEN cycle[p] ELSE @]
          /\ dres' = [dres EXCEPT ![p] = run.result]
          /\ net' = [net EXCEPT ![p] = @ \o run.net]
          /\ heard' = [heard EXCEPT ![p] = run.heard]
    /\ pc' = [pc EXCEPT ![p] = "discover_ret"]
    /\ UNCHANGED <<caller, gres, qres, cycle, has_error, output, resp,
                   gauges, requests, calls>>

\* a missing device or URL falls back to the built-in address
wan_common_url_or_fallback(dev) ==
    IF ~dev.some THEN Ok(FALLBACK_BASE)
    ELSE IF ~dev.v.wan_common_service_url.some THEN Ok(FALLBACK_BASE)
    ELSE Ok(dev.v.wan_common_service_url.v)

\* the IP-connection URL is demanded as well
wan_common_url_needing_ip(dev) ==
    IF ~dev.some THEN Err("No device configured")
    ELSE IF ~dev.v.wan_common_service_url.some
    THEN Err("No WANCommonInterfaceConfig service URL")
    ELSE IF ~dev.v.wan_ip_service_url.some
    THEN Err("No WANIPConnection service URL")
    ELSE Ok(dev.v.wan_common_service_url.v)

\* the two ok_or_else checks at the head of get_traffic_stats; the
\* IP-connection URL is read without a check
wan_common_url_of(dev) ==
    IF ~dev.some THEN Err("No device configured")
    ELSE IF ~dev.v.wan_common_service_url.some
    THEN Err("No WANCommonInterfaceConfig service URL")
    ELSE Ok(dev.v.wan_common_service_url.v)

get_traffic_stats(p) ==
    /\ UNCHANGED <<arg, ret, heard>>
    /\ pc[p] = "gts"
    /\ LET wan_common_url == wan_common_url_of(device[p])
       IN  IF ~wan_common_url.ok
           THEN /\ gres' = [gres EXCEPT ![p] = wan_common_url]
                /\ qres' = [qres EXCEPT ![p] = <<>>]
                /\ UNCHANGED net
           ELSE \E run \in TrafficStatsRuns :
                   /\ gres' = [gres EXCEPT ![p] = Ok(run.stats)]
                   /\ qres' = [qres EXCEPT ![p] = run.qres]
                   /\ net' = [net EXCEPT ![p] = @ \o run.net]
    /\ pc' = [pc EXCEPT ![p] = "gts_ret"]
    /\ UNCHANGED <<caller, device, dres, cycle, devCycle, has_error,
                   output, resp, gauges, requests, calls>>

----------------------------------------------------------------------------
(* MetricsCollector::collect_metrics and metrics_handler *)

\* a request for /metrics arrives: collect_metrics makes a new client and
\* calls discover_device
metrics_handler(p) ==
    /\ UNCHANGED <<arg, ret, heard>>
    /\ p \in Scrapes
    /\ pc[p] = "idle"
    /\ requests < MaxRequests
    /\ requests' = requests + 1
    /\ pc' = [pc EXCEPT ![p] = "discover"]
    /\ caller' = [caller EXCEPT ![p] = "collect_metrics"]
    /\ device' = [device EXCEPT ![p] = None]
    /\ cycle' = [cycle EXCEPT ![p] = 1]
    /\ devCycle' = [devCycle EXCEPT ![p] = 0]
    /\ dres' = [dres EXCEPT ![p] = Pending]
    /\ gres' = [gres EXCEPT ![p] = Pending]
    /\ qres' = [qres EXCEPT ![p] = <<>>]
    /\ net' = [net EXCEPT ![p] = <<>>]
    /\ has_error' = [has_error EXCEPT ![p] = FALSE]
    /\ output' = [output EXCEPT ![p] = NoOutput]
    /\ resp' = [resp EXCEPT ![p] = NoResp]
    /\ UNCHANGED <<gauges, calls>>

\* the match on discover_device's result
collect_metrics_discovered(p) ==
    /\ UNCHANGED <<arg, ret, heard>>
    /\ pc[p] = "discover_ret"
    /\ caller[p] = "collect_metrics"
    /\ IF dres[p].ok
       THEN /\ pc' = [pc EXCEPT ![p] = "gts"]
            /\ UNCHANGED <<has_error, gauges>>
       ELSE /\ has_error' = [has_error EXCEPT ![p] = TRUE]
            /\ gauges' = [gauges EXCEPT !.connection_status = 0]
            /\ pc' = [pc EXCEPT ![p] = "set_scrape_error"]
    /\ UNCHANGED <<caller, device, dres, gres, qres, net, cycle, devCycle,
                   output, resp, requests, calls>>

\* every successful scrape reports the link as connected
update_metrics_link_up(g, st) ==
    [g EXCEPT !.bytes_sent = st.bytes_sent,
              !.bytes_received = st.bytes_received,
              !.packets_sent = st.packets_sent,
              !.packets_received = st.packets_received,
              !.connection_status = 1]

update_metrics(g, st) ==
    [g EXCEPT !.bytes_sent = st.bytes_sent,
              !.bytes_received = st.bytes_received,
              !.packets_sent = st.packets_sent,
              !.packets_received = st.packets_received,
              !.connection_status =
                  IF st.connection_status = <<"Up">> THEN 1 ELSE 0]

\* the match on get_traffic_stats' result; the five gauge stores of
\* update_metrics are taken as one step
collect_metrics_stats(p) ==
    /\ UNCHANGED <<arg, ret, heard>>
    /\ pc[p] = "gts_ret"
    /\ caller[p] = "collect_metrics"
    /\ IF gres[p].ok
       THEN /\ gauges' = update_metrics(gauges, gres[p].v)
            /\ UNCHANGED has_error
       ELSE /\ has_error' = [has_error EXCEPT ![p] = TRUE]
            /\ gauges' = [gauges EXCEPT !.connection_status = 0]
    /\ pc' = [pc EXCEPT ![p] = "set_scrape_error"]
    /\ UNCHANGED <<caller, device, dres, gres, qres, net, cycle, devCycle,
                   output, resp, requests, calls>>

\* SCRAPE_ERROR.set(if has_error { 1.0 } else { 0.0 })
collect_metrics_set_scrape_error(p) ==
    /\ UNCHANGED <<arg, ret, heard>>
    /\ pc[p] = "set_scrape_error"
    /\ gauges' = [gauges EXCEPT !.scrape_error =
                      IF has_error[p] THEN 1 ELSE 0]
    /\ pc' = [pc EXCEPT ![p] = "encode"]
    /\ UNCHANGED <<caller, device, dres, gres, qres, net, cycle, devCycle,
                   has_error, output, resp, requests, calls>>

\* TextEncoder::encode_to_string of the gathered families: the text carries
\* the value of every registered gauge; six well-formed gauges always encode
encode_to_string(metric_families) == Ok(metric_families)

\* REGISTRY.gather() and the encoding; the returned flag is the encoder's
\* failure, not has_error
collect_metrics_encode(p) ==
    /\ UNCHANGED <<arg, ret, heard>>
    /\ pc[p] = "encode"
    /\ LET encoded == encode_to_string(gauges)
       IN  output' = [output EXCEPT ![p] =
               IF encoded.ok THEN [text |-> encoded.v, err |-> FALSE]
               ELSE [text |-> <<"Internal Server Error">>, err |-> TRUE]]
    /\ pc' = [pc EXCEPT ![p] = "collect_ret"]
    /\ UNCHANGED <<caller, device, dres, gres, qres, net, cycle, devCycle,
                   has_error, resp, gauges, requests, calls>>

metrics_response(out) ==
    IF out.err
    THEN [handler |-> "metrics", status |-> 500, content_type |-> "",
          body |-> out.text]
    ELSE [handler |-> "metrics", status |-> 200,
          content_type |-> "text/plain; charset=utf-8", body |-> out.text]

\* the response is built and collect_metrics' client is dropped
metrics_handler_respond(p) ==
    /\ UNCHANGED <<arg, ret, heard>>
    /\ pc[p] = "collect_ret"
    /\ resp' = [resp EXCEPT ![p] = metrics_response(output[p])]
    /\ pc' = [pc EXCEPT ![p] = "idle"]
    /\ device' = [device EXCEPT ![p] = None]
    /\ UNCHANGED <<caller, dres, gres, qres, net, cycle, devCycle,
                   has_error, output, gauges, requests, calls>>

----------------------------------------------------------------------------
(* MetricsCollector::get_stats and stats_handler *)

stats_handler(p) ==
    /\ UNCHANGED <<arg, ret, heard>>
    /\ p \in Scrapes
    /\ pc[p] = "idle"
    /\ requests < MaxRequests
    /\ requests' = requests + 1
    /\ pc' = [pc EXCEPT ![p] = "discover"]
    /\ caller' = [caller EXCEPT ![p] = "get_stats"]
    /\ device' = [device EXCEPT ![p] = None]
    /\ cycle' = [cycle EXCEPT ![p] = 1]
    /\ devCycle' = [devCycle EXCEPT ![p] = 0]
    /\ dres' = [dres EXCEPT ![p] = Pending]
    /\ gres' = [gres EXCEPT ![p] = Pending]
    /\ qres' = [qres EXCEPT ![p] = <<>>]
    /\ net' = [net EXCEPT ![p] = <<>>]
    /\ has_error' = [has_error EXCEPT ![p] = FALSE]
    /\ output' = [output EXCEPT ![p] = NoOutput]
    /\ resp' = [resp EXCEPT ![p] = NoResp]
    /\ UNCHANGED <<gauges, calls>>

\* the match on discover_device's result
get_stats_discovered(p) ==
    /\ UNCHANGED <<arg, ret, heard>>
    /\ pc[p] = "discover_ret"
    /\ caller[p] = "get_stats"
    /\ pc' = [pc EXCEPT ![p] = IF dres[p].ok THEN "gts" ELSE "get_stats_ret"]
    /\ UNCHANGED <<caller, device, dres, gres, qres, net, cycle, devCycle,
                   has_error, output, resp, gauges, requests, calls>>

\* the match on get_traffic_stats' result
get_stats_stats(p) ==
    /\ UNCHANGED <<arg, ret, heard>>
    /\ pc[p] = "gts_ret"
    /\ caller[p] = "get_stats"
    /\ pc' = [pc EXCEPT ![p] = "get_stats_ret"]
    /\ UNCHANGED <<caller, device, dres, gres, qres, net, cycle, devCycle,
                   has_error, output, resp, gauges, requests, calls>>

\* what get_stats returns
get_stats_result(d, g) ==
    IF ~d.ok THEN Err(<<"Device discovery failed", ":", " ", d.e>>)
    ELSE IF ~g.ok THEN Err(<<"Error", ":", " ", g.e>>)
    ELSE Ok(g.v)

stats_response(r, format) ==
    IF ~r.ok
    THEN [handler |-> "stats", status |-> 500, content_type |-> "",
          body |-> r.e]
    ELSE IF format = "json"
    THEN [handler |-> "stats", status |-> 200,
          content_type |-> "application/json", body |-> r.v]
    ELSE [handler |-> "stats", status |-> 200,
          content_type |-> "text/plain", body |-> r.v]

\* the response is built and get_stats' client is dropped
stats_handler_respond(p) ==
    /\ UNCHANGED <<arg, ret, heard>>
    /\ pc[p] = "get_stats_ret"
    /\ \E format \in {"json", "text"} :
          resp' = [resp EXCEPT ![p] =
              stats_response(get_stats_result(dres[p], gres[p]), format)]
    /\ pc' = [pc EXCEPT ![p] = "idle"]
    /\ device' = [device EXCEPT ![p] = None]
    /\ UNCHANGED <<caller, dres, gres, qres, net, cycle, devCycle,
                   has_error, output, gauges, requests, calls>>

----------------------------------------------------------------------------
(* A caller of the library: one UpnpClient, any sequence of calls *)

user_discover_device(p) ==
    /\ UNCHANGED <<arg, ret, heard>>
    /\ p = User
    /\ pc[p] = "idle"
    /\ calls < MaxCalls
    /\ calls' = calls + 1
    /\ pc' = [pc EXCEPT ![p] = "discover"]
    /\ caller' = [caller EXCEPT ![p] = "user"]
    /\ cycle' = [cycle EXCEPT ![p] = @ + 1]
    /\ dres' = [dres EXCEPT ![p] = Pending]
    /\ net' = [net EXCEPT ![p] = <<>>]
    /\ UNCHANGED <<device, gres, qres, devCycle, has_error, output, resp,
                   gauges, requests>>

user_get_traffic_stats(p) ==
    /\ UNCHANGED <<arg, ret, heard>>
    /\ p = User
    /\ pc[p] = "idle"
    /\ calls < MaxCalls
    /\ calls' = calls + 1
    /\ pc' = [pc EXCEPT ![p] = "gts"]
    /\ caller' = [caller EXCEPT ![p] = "user"]
    /\ gres' = [gres EXCEPT ![p] = Pending]
    /\ UNCHANGED <<device, dres, qres, net, cycle, devCycle, has_error,
                   output, resp, gauges, requests>>

user_returned(p) ==
    /\ UNCHANGED <<arg, ret, heard>>
    /\ caller[p] = "user"
    /\ pc[p] \in {"discover_ret", "gts_ret"}
    /\ pc' = [pc EXCEPT ![p] = "idle"]
    /\ UNCHANGED <<caller, device, dres, gres, qres, net, cycle, devCycle,
                   has_error, output, resp, gauges, requests, calls>>

----------------------------------------------------------------------------
(* Specifications *)

ServerStep(p) ==
    \/ metrics_handler(p)
    \/ collect_metrics_discovered(p)
    \/ collect_metrics_stats(p)
    \/ collect_metrics_set_scrape_error(p)
    \/ collect_metrics_encode(p)
    \/ metrics_handler_respond(p)
    \/ stats_handler(p)
    \/ get_stats_discovered(p)
    \/ get_stats_stats(p)
    \/ stats_handler_respond(p)
    \/ discover_device(p)
    \/ get_traffic_stats(p)

\* the server, one request at a time
Next == ServerStep("s1")

Spec == Init /\ [][Next]_vars

\* the server with requests served concurrently
NextConcurrent == \E p \in Scrapes : ServerStep(p)

SpecConcurrent == Init /\ [][NextConcurrent]_vars

\* the library used directly
NextClient ==
    \/ user_discover_device(User)
    \/ user_get_traffic_stats(User)
    \/ user_returned(User)
    \/ discover_device(User)
    \/ get_traffic_stats(User)

SpecClient == Init /\ [][NextClient]_vars

----------------------------------------------------------------------------
(* parse_service_urls applied to description documents *)

\* services in a generated description document
MaxServices == 2

\* the character-data events inside a serviceType element, in order; two
\* events are separated by an event the parser ignores (a processing
\* instruction, a CDATA section)
TypeChunks ==
    { <<>>, <<TYPE_COMMON>>, <<TYPE_IP>>, <<TYPE_OTHER>>, <<TYPE_BOTH>>,
      <<TYPE_COMMON, TYPE_OTHER>>, <<TYPE_OTHER, TYPE_COMMON>> }

\* the text of the controlURL element, None if the service has none
ControlUrls == {None, Some(CTL_COMMON_REL), Some(CTL_COMMON_ABS)}

ServiceShapes == [types : TypeChunks, url : ControlUrls]

RECURSIVE Chunked(_)
Chunked(chunks) ==
    IF Len(chunks) = 0 THEN <<>>
    ELSE IF Len(chunks) = 1 THEN <<Characters(chunks[1])>>
    ELSE <<Characters(chunks[1]), OtherEvent>> \o Chunked(Tail(chunks))

ServiceEvents(sh) ==
    <<StartElement("service"), StartElement("serviceType")>>
        \o Chunked(sh.types) \o <<EndElement("serviceType")>>
        \o (IF sh.url.some THEN Element("controlURL", sh.url.v) ELSE <<>>)
        \o <<EndElement("service")>>

RECURSIVE ServicesEvents(_)
ServicesEvents(shapes) ==
    IF Len(shapes) = 0 THEN <<>>
    ELSE ServiceEvents(shapes[1]) \o ServicesEvents(Tail(shapes))

\* the events the reader yields: the whole document, or its first
\* errAt - 1 events followed by a parse error
DocumentEvents(shapes, errAt) ==
    LET full == Document(ServicesEvents(shapes))
    IN  IF errAt = 0 THEN full
        ELSE SubSeq(full, 1, errAt - 1) \o <<XmlError>>

\* a location on the address parse_service_urls has built in
LOC3 == <<"http", ":", "//", "192.168.3.1", ":", "1900", "/rootDesc.xml">>

ParseInput(shapes, errAt, base_url) ==
    [fn |-> "parse_service_urls", services |-> shapes, errAt |-> errAt,
     base_url |-> base_url]

InitParse ==
    /\ InitState
    /\ ret = None
    /\ \E n \in 0..MaxServices :
          \E shapes \in [1..n -> ServiceShapes] :
             \E errAt \in 0..Len(DocumentEvents(shapes, 0)) :
                \E base_url \in {LOC1, LOC3} :
                   arg = ParseInput(shapes, errAt, base_url)

parse_service_urls_call ==
    /\ ret = None
    /\ arg.fn = "parse_service_urls"
    /\ ret' = Some(parse_service_urls(
                       DocumentEvents(arg.services, arg.errAt), arg.base_url))
    /\ UNCHANGED <<pc, caller, device, dres, gres, qres, net, cycle,
                   devCycle, heard, has_error, output, resp, gauges,
                   requests, calls, arg>>

NextParse == parse_service_urls_call

SpecParse == InitParse /\ [][NextParse]_vars

----------------------------------------------------------------------------
(* The SOAP counter queries applied to generated responses *)

\* elements inside the response element of a generated SOAP response
MaxElements == 2

N12345 == <<"1", "2", "3", "4", "5">>
N123 == <<"1", "2", "3">>
N45 == <<"4", "5">>
N7 == <<"7">>

\* the character-data events inside one element, in order; two events are
\* separated by an event the parser ignores
SoapChunks ==
    { <<>>, <<N12345>>, <<N7>>, <<N123, N45>>, <<<<" ", "Up">>>> }

\* an element of the response: the one the query looks for, or another one
SoapItems == [target : BOOLEAN, chunks : SoapChunks]

ItemEvents(it, element_name) ==
    LET n == IF it.target THEN element_name ELSE "NewOther"
    IN  <<StartElement(n)>> \o Chunked(it.chunks) \o <<EndElement(n)>>

RECURSIVE ItemsEvents(_, _)
ItemsEvents(items, element_name) ==
    IF Len(items) = 0 THEN <<>>
    ELSE ItemEvents(items[1], element_name)
             \o ItemsEvents(Tail(items), element_name)

SoapEnvelope(body) ==
    <<OtherEvent, StartElement("Envelope"), StartElement("Body"),
      StartElement("Response")>> \o body
        \o <<EndElement("Response"), EndElement("Body"),
             EndElement("Envelope"), EndDocument>>

\* the events the reader yields for a response: all of them, or the first
\* errAt - 1 followed by a parse error
SoapEvents(items, element_name, errAt) ==
    LET full == SoapEnvelope(ItemsEvents(items, element_name))
    IN  IF errAt = 0 THEN full
        ELSE SubSeq(full, 1, errAt - 1) \o <<XmlError>>

HttpStatuses == {200, 500}

\* the answer of the gateway to the POST of the i-th query
QueryReply(a) ==
    IF ~a.sent THEN HttpFailure
    ELSE HttpReply(a.status,
                   SoapEvents(a.items, ELEMENT_NAMES[a.i], a.errAt))

QueryInput(i, sent, status, items, errAt) ==
    [fn |-> "query", i |-> i, sent |-> sent, status |-> status,
     items |-> items, errAt |-> errAt]

InitSoap ==
    /\ InitState
    /\ ret = None
    /\ \E i \in 1..NumQueries :
          \/ arg = QueryInput(i, FALSE, 0, <<>>, 0)
          \/ \E n \in 0..MaxElements :
                \E items \in [1..n -> SoapItems] :
                   \E errAt \in 0..Len(SoapEvents(items, "", 0)) :
                      \E status \in HttpStatuses :
                         arg = QueryInput(i, TRUE, status, items, errAt)

\* one of the five queries of get_traffic_stats on a new snapshot: the
\* get_* method and the conditional store.  The same client may repeat it
\* against the unchanged endpoint.
query_call ==
    /\ arg.fn = "query"
    /\ LET r == query_result(arg.i, QueryReply(arg))
           done == [result |-> r,
                    stats |-> store_result(arg.i, TrafficStatsDefault, r)]
       IN  IF ret.some
           THEN /\ Len(ret.v) = 1
                /\ ret' = Some(Append(ret.v, done))
           ELSE ret' = Some(<<done>>)
    /\ UNCHANGED <<pc, caller, device, dres, gres, qres, net, cycle,
                   devCycle, heard, has_error, output, resp, gauges,
                   requests, calls, arg>>

NextSoap == query_call

SpecSoap == InitSoap /\ [][NextSoap]_vars

----------------------------------------------------------------------------
(* The HTTP calls: the SOAP queries and the fetch of the description *)

SetupInput(location, reply) ==
    [fn |-> "setup_service", location |-> location, reply |-> reply]

InitSetup ==
    /\ InitState
    /\ ret = None
    /\ \E location \in {LOC1, LOC2} :
          \E reply \in DescReplies :
             arg = SetupInput(location, reply)

\* setup_service on a client whose device was just found at the location
setup_service_call ==
    /\ arg.fn = "setup_service"
    /\ ret = None
    /\ ret' = Some(setup_service(
                       Some(UpnpDevice(arg.location, None, None)),
                       arg.reply))
    /\ UNCHANGED <<pc, caller, device, dres, gres, qres, net, cycle,
                   devCycle, heard, has_error, output, resp, gauges,
                   requests, calls, arg>>

InitHttp == InitSoap \/ InitSetup

NextHttp ==
    \/ query_call
    \/ setup_service_call

SpecHttp == InitHttp /\ [][NextHttp]_vars

----------------------------------------------------------------------------
(* discover_device on a socket with queued datagrams, under a configuration *)

\* Duration::from_secs(5) around recv_from
DISCOVERY_TIMEOUT_SECS == 5

\* datagrams a socket may have queued
MaxDatagrams == 2

\* seconds after the search at which the first datagram arrives
ArrivalSecs == {0, 3, 7, 12}

\* values of upnp.discovery_timeout in config.toml
ConfiguredTimeouts == {1, 5, 10}

Config(discovery_timeout) ==
    [upnp |-> [discovery_timeout |-> discovery_timeout]]

Socket(send_error, recv_error, at, datagrams) ==
    [send_error |-> send_error, recv_error |-> recv_error, at |-> at,
     datagrams |-> datagrams]

Sockets ==
    { Socket(TRUE, FALSE, 0, <<>>), Socket(FALSE, TRUE, 0, <<>>) }
    \cup { Socket(FALSE, FALSE, at, datagrams) :
               at \in ArrivalSecs,
               datagrams \in UNION { [1..n -> SsdpResponses] :
                                        n \in 0..MaxDatagrams } }

\* the socket is read until a datagram with a LOCATION header turns up
RECURSIVE timeout_recv_from_skipping(_, _)
timeout_recv_from_skipping(duration, socket) ==
    IF socket.recv_error
    THEN [outcome |-> [kind |-> "socket_error", data |-> <<>>],
          left |-> socket.datagrams]
    ELSE IF Len(socket.datagrams) = 0 \/ socket.at >= duration
    THEN [outcome |-> [kind |-> "timeout", data |-> <<>>],
          left |-> socket.datagrams]
    ELSE IF /\ ~extract_location(Head(socket.datagrams)).some
            /\ Len(socket.datagrams) > 1
    THEN timeout_recv_from_skipping(duration,
             [socket EXCEPT !.datagrams = Tail(@)])
    ELSE [outcome |-> [kind |-> "datagram",
                       data |-> Head(socket.datagrams)],
          left |-> Tail(socket.datagrams)]

\* timeout(duration, socket.recv_from(..)): one read of the socket, which
\* yields the first datagram if it arrives within the duration
timeout_recv_from(duration, socket) ==
    IF socket.recv_error
    THEN [outcome |-> [kind |-> "socket_error", data |-> <<>>],
          left |-> socket.datagrams]
    ELSE IF Len(socket.datagrams) = 0 \/ socket.at >= duration
    THEN [outcome |-> [kind |-> "timeout", data |-> <<>>],
          left |-> socket.datagrams]
    ELSE [outcome |-> [kind |-> "datagram",
                       data |-> Head(socket.datagrams)],
          left |-> Tail(socket.datagrams)]

DiscoverInput(config, socket, reply) ==
    [fn |-> "discover_device", config |-> config, socket |-> socket,
     reply |-> reply]

InitDiscover ==
    /\ InitState
    /\ ret = None
    /\ \E discovery_timeout \in ConfiguredTimeouts :
          \E socket \in Sockets :
             \E reply \in DescReplies :
                arg = DiscoverInput(Config(discovery_timeout), socket, reply)

\* discover_device on a new client of a server started with the
\* configuration: the configuration does not reach the client
discover_device_call ==
    /\ arg.fn = "discover_device"
    /\ ret = None
    /\ LET w == IF arg.socket.send_error
                THEN [outcome |-> [kind |-> "io_error", data |-> <<>>],
                      left |-> arg.socket.datagrams]
                ELSE timeout_recv_from(DISCOVERY_TIMEOUT_SECS, arg.socket)
       IN  ret' = Some([run |-> discover_device_run(w.outcome, arg.reply),
                        left |-> w.left])
    /\ UNCHANGED <<pc, caller, device, dres, gres, qres, net, cycle,
                   devCycle, heard, has_error, output, resp, gauges,
                   requests, calls, arg>>

NextDiscover == discover_device_call

SpecDiscover == InitDiscover /\ [][NextDiscover]_vars

----------------------------------------------------------------------------
(* extract_location applied to generated SSDP responses *)

\* lines of a generated response
MaxLines == 3

HeaderLines ==
    { STATUS_LINE, ST_LINE,
      <<"LOCATION", ":", " ">> \o LOC1,
      <<"Location", ":">> \o LOC2 \o <<" ">>,
      <<"LoCaTiOn", ":", " ", " ">> \o LOC3 \o <<" ", " ">>,
      <<"location", ":">>,
      <<"LOCATIONS", ":", " ">> \o LOC2 }

LocationInput(response) ==
    [fn |-> "extract_location", response |-> response]

InitLocation ==
    /\ InitState
    /\ ret = None
    /\ \E n \in 0..MaxLines :
          \E response \in [1..n -> HeaderLines] :
             arg = LocationInput(response)

extract_location_call ==
    /\ arg.fn = "extract_location"
    /\ ret = None
    /\ ret' = Some(extract_location(arg.response))
    /\ UNCHANGED <<pc, caller, device, dres, gres, qres, net, cycle,
                   devCycle, heard, has_error, output, resp, gauges,
                   requests, calls, arg>>

NextLocation == extract_location_call

SpecLocation == InitLocation /\ [][NextLocation]_vars

----------------------------------------------------------------------------
(* The three consumers of the XML reader *)

\* documents and responses in which the reader reports a parse error
InitXml ==
    /\ InitState
    /\ ret = None
    /\ \/ \E n \in 0..MaxServices :
             \E shapes \in [1..n -> ServiceShapes] :
                \E errAt \in 1..Len(DocumentEvents(shapes, 0)) :
                   arg = ParseInput(shapes, errAt, LOC1)
       \/ \E i \in {1, NumQueries} :
             \E n \in 0..MaxElements :
                \E items \in [1..n -> SoapItems] :
                   \E errAt \in 1..Len(SoapEvents(items, "", 0)) :
                      arg = QueryInput(i, TRUE, 200, items, errAt)

NextXml ==
    \/ parse_service_urls_call
    \/ query_call

SpecXml == InitXml /\ [][NextXml]_vars

----------------------------------------------------------------------------
(* The numeric queries applied to numbers written in decimal *)

DigitTok(d) ==
    CASE d = 0 -> "0" [] d = 1 -> "1" [] d = 2 -> "2" [] d = 3 -> "3"
      [] d = 4 -> "4" [] d = 5 -> "5" [] d = 6 -> "6" [] d = 7 -> "7"
      [] d = 8 -> "8" [] d = 9 -> "9"

\* a number as the gateway writes it (u64::to_string)
RECURSIVE to_string(_)
to_string(n) ==
    IF n < 10 THEN <<DigitTok(n)>>
    ELSE Append(to_string(n \div 10), DigitTok(n % 10))

\* the numbers a gateway may send: all of the type and as many above it
NumbersSent == 0..(2 * U64_MAX + 1)

\* texts that are not unsigned decimal numbers
NotNumbers ==
    { <<"n", "a">>, <<"-", "5">>, <<"-", "0">>, <<"1", "e", "3">>,
      <<"1", "2", ".", "5">>, <<" ", "5">>, <<"5", " ">>, <<"+">>,
      <<"0", "x", "1">> }

NumberInput(text, n) ==
    [fn |-> "query", i |-> 1, sent |-> TRUE, status |-> 200,
     items |-> <<[target |-> TRUE, chunks |-> <<text>>]>>, errAt |-> 0,
     n |-> n]

InitNumbers ==
    /\ InitState
    /\ ret = None
    /\ \/ \E n \in NumbersSent : arg = NumberInput(to_string(n), n)
       \/ \E n \in 0..9 :
             arg = NumberInput(<<"0", "0">> \o to_string(n), n)
       \/ \E text \in NotNumbers : arg = NumberInput(text, -1)

SpecNumbers == InitNumbers /\ [][NextSoap]_vars

----------------------------------------------------------------------------
(* Properties of get_traffic_stats *)

Count(seq, x) == Cardinality({i \in DOMAIN seq : seq[i] = x})

FieldOf(i, st) ==
    CASE i = 1 -> st.bytes_sent
      [] i = 2 -> st.bytes_received
      [] i = 3 -> st.packets_sent
      [] i = 4 -> st.packets_received
      [] i = 5 -> st.connection_status

DefaultOf(i) == IF i = 5 THEN <<"Disconnected">> ELSE 0

Ready(dev) == dev.some /\ dev.v.wan_common_service_url.some

FivePosts == <<"POST", "POST", "POST", "POST", "POST">>

\* C1: in the snapshot returned by get_traffic_stats every field is the
\* value its own query returned if that query succeeded and its default
\* (0, or "Disconnected" for connection_status) if it failed, whatever the
\* other four queries did.
C1_FieldsIndependent ==
    \A p \in Procs :
        (pc[p] = "gts_ret" /\ gres[p].ok) =>
            /\ Len(qres[p]) = NumQueries
            /\ \A i \in 1..NumQueries :
                  FieldOf(i, gres[p].v) =
                      IF qres[p][i].ok THEN qres[p][i].v ELSE DefaultOf(i)

\* a snapshot in which the first and fifth queries succeeded and the
\* second and fourth failed
C1_Witness ==
    /\ pc[User] = "gts_ret" /\ gres[User].ok
    /\ qres[User][1].ok /\ ~qres[User][2].ok /\ qres[User][3].ok
    /\ ~qres[User][4].ok /\ qres[User][5].ok
    /\ gres[User].v.bytes_sent = 42 /\ gres[User].v.bytes_received = 0
    /\ gres[User].v.packets_received = 0
    /\ gres[User].v.connection_status = <<"Up">>

\* C2: a call of get_traffic_stats on a client whose device and
\* common-interface URL are set makes all five POSTs and returns success
\* whichever of them fail; the call returns an error only if the device or
\* that URL is missing.
C2_AllQueriesAttempted ==
    [][\A p \in Procs :
          (pc[p] = "gts" /\ pc'[p] = "gts_ret") =>
              /\ Ready(device[p]) =>
                    /\ gres'[p].ok
                    /\ Len(qres'[p]) = NumQueries
                    /\ net'[p] = net[p] \o FivePosts
              /\ ~gres'[p].ok => ~Ready(device[p])]_vars

\* all five queries failed and the call still returned a snapshot
C2_Witness ==
    /\ pc[User] = "gts_ret" /\ gres[User].ok
    /\ Len(qres[User]) = NumQueries
    /\ \A i \in 1..NumQueries : ~qres[User][i].ok
    /\ gres[User].v = TrafficStatsDefault
    /\ Count(net[User], "POST") >= NumQueries

\* C3: in every collection cycle of the server the SSDP exchange comes
\* before the GET of the description, a POST is sent only after a GET that
\* was answered, and no POST is sent in a cycle whose discover_device
\* returned an error.
C3_Ordering ==
    \A p \in Scrapes :
        /\ \A i \in DOMAIN net[p] :
              /\ net[p][i] \in {"GET", "GET_FAILED"} =>
                    \E k \in 1..(i - 1) : net[p][k] = "SSDP"
              /\ net[p][i] = "POST" =>
                    \E j \in 1..(i - 1) :
                        /\ net[p][j] = "GET"
                        /\ \E k \in 1..(j - 1) : net[p][k] = "SSDP"
        /\ Failed(dres[p]) => Count(net[p], "POST") = 0

\* a complete cycle: SSDP, GET, five POSTs
C3_Witness ==
    /\ pc["s1"] = "gts_ret"
    /\ net["s1"] = <<"SSDP", "GET">> \o FivePosts

\* C4: get_traffic_stats sends a POST only if the client's device and its
\* wan_common_service_url are set; if either is missing it fails and sends
\* nothing; a missing wan_ip_service_url does not make it fail.
C4_NoQueryWithoutUrl ==
    [][\A p \in Procs :
          (pc[p] = "gts" /\ pc'[p] = "gts_ret") =>
              /\ net'[p] # net[p] => Ready(device[p])
              /\ ~Ready(device[p]) =>
                    /\ Failed(gres'[p])
                    /\ net'[p] = net[p]
              /\ (Ready(device[p]) /\ ~device[p].v.wan_ip_service_url.some)
                    => gres'[p].ok]_vars

\* the call failed on a device that is set but has no common-interface URL
C4_Witness ==
    /\ pc[User] = "gts_ret"
    /\ device[User].some
    /\ ~device[User].v.wan_common_service_url.some
    /\ Failed(gres[User])
    /\ Count(net[User], "POST") = 0

\* LOCATION in some letter cases
LocationNames == {"LOCATION", "Location", "location", "LoCaTiOn"}

IsLocationLine(line) ==
    /\ Len(line) >= 2
    /\ line[1] \in LocationNames
    /\ line[2] = ":"

HasLocationHeader(data) == \E i \in 1..Len(data) : IsLocationLine(data[i])

NoLocationHeard(p) ==
    /\ cycle[p] = 1
    /\ heard[p].kind = "datagram"
    /\ ~HasLocationHeader(heard[p].data)

\* C5: the first discover_device on a new client, answered by a datagram
\* without a LOCATION header, returns success, makes no GET and leaves the
\* device unset; get_traffic_stats on that client then fails without a
\* POST.
C5_NoLocationNoDevice ==
    \A p \in Procs :
        (NoLocationHeard(p) /\ pc[p] # "discover") =>
            /\ dres[p].ok
            /\ Count(net[p], "GET") = 0
            /\ Count(net[p], "GET_FAILED") = 0
            /\ ~device[p].some
            /\ Count(net[p], "POST") = 0
            /\ pc[p] = "gts_ret" => Failed(gres[p])

\* get_traffic_stats has failed after such a discovery
C5_Witness ==
    /\ NoLocationHeard(User)
    /\ pc[User] = "gts_ret"
    /\ dres[User].ok
    /\ Failed(gres[User])
    /\ net[User] = <<"SSDP">>

----------------------------------------------------------------------------
(* Properties of the server *)

\* C6: the metrics text a collect_metrics call returns shows that call's
\* own outcome: its scrape-error flag, and after a successful scrape its
\* own snapshot values, whatever another request does meanwhile.
C6_OwnOutcome ==
    \A p \in Scrapes :
        (pc[p] = "collect_ret" /\ ~output[p].err) =>
            LET t == output[p].text
            IN  /\ t.scrape_error = (IF has_error[p] THEN 1 ELSE 0)
                /\ has_error[p] => t.connection_status = 0
                /\ gres[p].ok =>
                      /\ t.bytes_sent = gres[p].v.bytes_sent
                      /\ t.bytes_received = gres[p].v.bytes_received
                      /\ t.packets_sent = gres[p].v.packets_sent
                      /\ t.packets_received = gres[p].v.packets_received
                      /\ t.connection_status =
                            (IF gres[p].v.connection_status = <<"Up">>
                             THEN 1 ELSE 0)

Fatal(p) == Failed(dres[p]) \/ Failed(gres[p])

\* C7: the response of /metrics and of /stats has status 500 exactly when
\* discover_device or get_traffic_stats failed in that request, and a
\* success status otherwise.
C7_StatusReflectsFatal ==
    \A p \in Scrapes :
        resp[p].handler # "none" =>
            /\ resp[p].status \in {200, 500}
            /\ resp[p].status = 500 <=> Fatal(p)

\* C8: once discover_device has been called a second time on a client, a
\* device held by the client was assigned by the latest call, never by an
\* earlier one.
C8_NoStaleDevice ==
    (cycle[User] >= 2 /\ pc[User] # "discover") =>
        (device[User].some => devCycle[User] = cycle[User])

----------------------------------------------------------------------------
(* Properties of parse_service_urls *)

\* index of the event that closes the i-th service of the document
ServiceEndIndex(shapes, i) ==
    4 + Len(ServicesEvents(SubSeq(shapes, 1, i)))

\* the i-th service was read to its end tag
Complete(a, i) ==
    a.errAt = 0 \/ ServiceEndIndex(a.services, i) < a.errAt

RECURSIVE Concat(_)
Concat(chunks) ==
    IF Len(chunks) = 0 THEN <<>> ELSE chunks[1] \o Concat(Tail(chunks))

\* the whole text of the i-th service's serviceType names the service
TypeTextHas(a, i, word) == contains(Concat(a.services[i].types), word)

\* the last character data of the i-th service's serviceType names it
LastChunkHas(a, i, word) ==
    /\ Len(a.services[i].types) > 0
    /\ contains(a.services[i].types[Len(a.services[i].types)], word)

Parsed == ret.some /\ arg.fn = "parse_service_urls"

Authority(url) == SubSeq(url, 1, 6)

\* C9: a control URL that starts with "http" is recorded as it is, and a
\* relative one is recorded with the scheme, host and port of the location
\* in front of it.  Stated for documents with exactly one service typed
\* WANCommonInterfaceConfig, read to the end.
C9_ResolvedAgainstLocation ==
    Parsed =>
        \A i \in 1..Len(arg.services) :
            ( /\ arg.errAt = 0
              /\ arg.services[i].types = <<TYPE_COMMON>>
              /\ arg.services[i].url.some
              /\ \A j \in 1..Len(arg.services) :
                    j # i => ~TypeTextHas(arg, j, "WANCommonInterfaceConfig") )
            => /\ ret.v.ok
               /\ ret.v.v.common =
                     Some(IF starts_with_http(arg.services[i].url.v)
                          THEN arg.services[i].url.v
                          ELSE Authority(arg.base_url)
                                   \o arg.services[i].url.v)

CommonFound ==
    /\ ret.v.ok
    /\ ret.v.v.common.some
    /\ Len(ret.v.v.common.v) > 0

NotFound == ret.v = Err("WANCommonInterfaceConfig service not found")

\* C10 as claimed: if some service read to its end has a serviceType text
\* containing WANCommonInterfaceConfig the parse succeeds with a non-empty
\* common-interface URL, otherwise it fails with service-not-found.
C10_AnyTextFound ==
    Parsed =>
        IF \E i \in 1..Len(arg.services) :
               Complete(arg, i)
               /\ TypeTextHas(arg, i, "WANCommonInterfaceConfig")
        THEN CommonFound
        ELSE NotFound

\* C10: if in some service read to its end the last character data inside
\* serviceType contains WANCommonInterfaceConfig, parse_service_urls
\* succeeds with a non-empty common-interface URL; if there is no such
\* service it fails with service-not-found; whether a WANIPConnection
\* service is present does not matter.
C10_LastTextFound ==
    Parsed =>
        IF \E i \in 1..Len(arg.services) :
               Complete(arg, i)
               /\ LastChunkHas(arg, i, "WANCommonInterfaceConfig")
        THEN CommonFound
        ELSE NotFound

\* a document whose only service carries the name in the second of two
\* character-data events, and no WANIPConnection service: found
C10_Witness ==
    /\ Parsed
    /\ arg.errAt = 0
    /\ Len(arg.services) = 1
    /\ arg.services[1].types = <<TYPE_OTHER, TYPE_COMMON>>
    /\ CommonFound
    /\ ~ret.v.v.ip.some

\* what the i-th service leaves in the two accumulators
TypeOf(a, i) ==
    IF Len(a.services[i].types) = 0 THEN <<>>
    ELSE a.services[i].types[Len(a.services[i].types)]

UrlOf(a, i) == IF a.services[i].url.some THEN a.services[i].url.v ELSE <<>>

IsCommon(a, i) ==
    Complete(a, i) /\ contains(TypeOf(a, i), "WANCommonInterfaceConfig")

IsIp(a, i) ==
    /\ Complete(a, i)
    /\ contains(TypeOf(a, i), "WANIPConnection")
    /\ ~contains(TypeOf(a, i), "WANCommonInterfaceConfig")

\* the last service of the document for which Is holds
LastService(a, Is(_, _)) ==
    CHOOSE i \in 1..Len(a.services) :
        Is(a, i) /\ \A h \in (i + 1)..Len(a.services) : ~Is(a, h)

\* rec is the control URL u as it stands or behind a scheme, host and port
RecordedFrom(rec, u) ==
    \/ rec = u
    \/ Len(rec) = Len(u) + 6 /\ SubSeq(rec, 7, Len(rec)) = u

\* C19: the URL recorded for a service is made of the controlURL text of
\* that same service (of nothing if it has none), never of an earlier
\* service's; the common-interface URL is that of the last service whose
\* type contains WANCommonInterfaceConfig, and the IP-connection URL that
\* of the last service whose type contains WANIPConnection and not
\* WANCommonInterfaceConfig, absent if there is no such service.  The
\* type of a service is what its serviceType leaves in the accumulator.
C19_OwnControlUrl ==
    (Parsed /\ ret.v.ok) =>
        /\ \E i \in 1..Len(arg.services) : IsCommon(arg, i)
        /\ ret.v.v.common.some
        /\ RecordedFrom(ret.v.v.common.v,
                        UrlOf(arg, LastService(arg, IsCommon)))
        /\ IF \E i \in 1..Len(arg.services) : IsIp(arg, i)
           THEN /\ ret.v.v.ip.some
                /\ RecordedFrom(ret.v.v.ip.v,
                                UrlOf(arg, LastService(arg, IsIp)))
           ELSE ret.v.v.ip = None

\* a service with a control URL, then the common-interface service without
\* one: the URL recorded has no path
C19_Witness ==
    /\ Parsed
    /\ arg.errAt = 0
    /\ Len(arg.services) = 2
    /\ arg.services[1] = [types |-> <<TYPE_IP>>, url |-> Some(CTL_COMMON_ABS)]
    /\ arg.services[2] = [types |-> <<TYPE_BOTH>>, url |-> None]
    /\ ret.v.ok
    /\ ret.v.v.common = Some(FALLBACK_BASE)
    /\ ret.v.v.ip = Some(CTL_COMMON_ABS)

----------------------------------------------------------------------------
(* Properties of the SOAP response parsers *)

\* index of the start tag of the k-th element of a generated response
ItemStart(items, k) == 5 + Len(ItemsEvents(SubSeq(items, 1, k - 1), ""))

\* index of its end tag
ItemEnd(items, k) == 4 + Len(ItemsEvents(SubSeq(items, 1, k), ""))

\* the event at index idx is yielded before any parse error
ReadBeforeError(a, idx) == a.errAt = 0 \/ idx < a.errAt

\* the k-th element is the queried one and character data is read in it
HasText(a, k) ==
    /\ a.items[k].target
    /\ Len(a.items[k].chunks) > 0
    /\ ReadBeforeError(a, ItemStart(a.items, k) + 1)

\* the first character data read inside the queried element
FirstText(a) ==
    LET k == CHOOSE j \in 1..Len(a.items) :
                 HasText(a, j) /\ \A h \in 1..(j - 1) : ~HasText(a, h)
    IN  a.items[k].chunks[1]

Queried == ret.some /\ arg.fn = "query"

NumericQuery == Queried /\ arg.i < NumQueries /\ arg.sent /\ arg.status = 200

ElementNotFound == Err("ElementNotFound")

\* C11 as claimed: a response that contains the queried element with the
\* text 12345 yields 12345 whatever surrounds it, and a response in which
\* the element never appears yields element-not-found.
C11_ElementValueFound ==
    NumericQuery =>
        \A j \in 1..Len(ret.v) :
            /\ (\E k \in 1..Len(arg.items) :
                    /\ arg.items[k].target
                    /\ arg.items[k].chunks = <<N12345>>
                    /\ ReadBeforeError(arg, ItemEnd(arg.items, k)))
                  => ret.v[j].result = Ok(12345)
            /\ (\A k \in 1..Len(arg.items) :
                    arg.items[k].target
                        => ~ReadBeforeError(arg, ItemStart(arg.items, k)))
                  => ret.v[j].result = ElementNotFound

\* C11: if the first character data read inside an element with the
\* queried counter's name is 12345 the query returns exactly 12345,
\* whatever other elements surround it; if no character data is read
\* inside such an element, in particular if the element never appears, it
\* fails with element-not-found.  For each of the four numeric counters.
C11_FirstTextReturned ==
    NumericQuery =>
        \A j \in 1..Len(ret.v) :
            IF \E k \in 1..Len(arg.items) : HasText(arg, k)
            THEN FirstText(arg) = N12345 => ret.v[j].result = Ok(12345)
            ELSE ret.v[j].result = ElementNotFound

\* NewTotalBytesReceived with 12345 after another element holding 7
C11_Witness ==
    /\ NumericQuery
    /\ arg.i = 2
    /\ arg.errAt = 0
    /\ arg.items = << [target |-> FALSE, chunks |-> <<N7>>],
                      [target |-> TRUE, chunks |-> <<N12345>>] >>
    /\ ret.v[1].result = Ok(12345)
    /\ ret.v[1].stats.bytes_received = 12345

ParseError == Err("ParseError")

\* C12: character data that is not an unsigned decimal number of the
\* counter's width (other text, a negative number, a number above the
\* maximum) makes the query fail with a parse error, which is not the
\* element-not-found error, and leaves the field at 0; every number of the
\* type written in decimal, leading zeros or not, is returned exactly.
C12_ExactOrParseError ==
    (Queried /\ "n" \in DOMAIN arg) =>
        \A j \in 1..Len(ret.v) :
            IF arg.n \in 0..U64_MAX
            THEN /\ ret.v[j].result = Ok(arg.n)
                 /\ ret.v[j].stats.bytes_sent = arg.n
            ELSE /\ ret.v[j].result = ParseError
                 /\ ret.v[j].result # ElementNotFound
                 /\ ret.v[j].stats = TrafficStatsDefault

\* the number just above the maximum of the type is refused
C12_Witness ==
    /\ Queried
    /\ "n" \in DOMAIN arg
    /\ arg.n = U64_MAX + 1
    /\ arg.items[1].chunks[1] = to_string(U64_MAX + 1)
    /\ ret.v[1].result = ParseError

----------------------------------------------------------------------------
(* Properties of the HTTP calls *)

SetUp == ret.some /\ arg.fn = "setup_service"

\* C13: an answer with a status other than 200 makes the call fail: the
\* SOAP query fails and its field stays at the default whatever the body
\* holds, and setup_service fails.
C13_BadStatusFails ==
    /\ (Queried /\ arg.sent /\ arg.status # 200) =>
          \A j \in 1..Len(ret.v) :
              /\ ~ret.v[j].result.ok
              /\ ret.v[j].stats = TrafficStatsDefault
    /\ (SetUp /\ arg.reply.ok /\ arg.reply.status # 200) => ~ret.v.ok

----------------------------------------------------------------------------
(* Properties of discover_device *)

SsdpSent(p) == net'[p] = Append(net[p], "SSDP")

\* C14: a call of discover_device that got as far as waiting on the socket
\* ends the wait with a datagram, a socket error or the timeout; after the
\* timeout it fails with the discovery-timeout error, after a socket error
\* with the socket error, which is another error, and in both cases it
\* makes no GET and leaves the client's device as it was.
C14_WaitOutcomes ==
    [][\A p \in Procs :
          (pc[p] = "discover" /\ pc'[p] = "discover_ret") =>
              /\ heard'[p].kind \in
                     {"io_error", "datagram", "socket_error", "timeout"}
              /\ heard'[p].kind = "io_error" => net'[p] = net[p]
              /\ heard'[p].kind = "timeout" =>
                    /\ dres'[p] = Err("Discovery timeout")
                    /\ SsdpSent(p)
                    /\ device'[p] = device[p]
              /\ heard'[p].kind = "socket_error" =>
                    /\ dres'[p] = Err("Socket error")
                    /\ dres'[p] # Err("Discovery timeout")
                    /\ SsdpSent(p)
                    /\ device'[p] = device[p]]_vars

\* a socket error has ended the wait of a client's second discovery
C14_Witness ==
    /\ pc[User] = "discover_ret"
    /\ cycle[User] = 2
    /\ heard[User].kind = "socket_error"
    /\ dres[User] = Err("Socket error")
    /\ net[User] = <<"SSDP">>

Discovered == ret.some /\ arg.fn = "discover_device"

\* C15: the wait on the socket is bounded by the configured
\* upnp.discovery_timeout: the call times out exactly when no datagram
\* arrives within that many seconds.
C15_TimeoutIsConfigured ==
    (Discovered /\ ~arg.socket.send_error /\ ~arg.socket.recv_error) =>
        (ret.v.run.heard.kind = "timeout"
            <=> \/ Len(arg.socket.datagrams) = 0
                \/ arg.socket.at >= arg.config.upnp.discovery_timeout)

\* C16: a call of discover_device reads the socket at most once; if it
\* receives a datagram the outcome is that of the first one: its location
\* becomes the device's, or, if it has no LOCATION header, no device is
\* set, no GET is made and the call succeeds, whatever the datagrams
\* behind it hold; these stay unread.
C16_FirstDatagramOnly ==
    Discovered =>
        LET run == ret.v.run
            datagrams == arg.socket.datagrams
        IN  /\ Len(ret.v.left) >= Len(datagrams) - 1
            /\ run.heard.kind = "datagram" =>
                  /\ ret.v.left = Tail(datagrams)
                  /\ run.heard.data = Head(datagrams)
                  /\ IF HasLocationHeader(Head(datagrams))
                     THEN /\ run.assigned
                          /\ Some(run.device.v.location) =
                                 extract_location(Head(datagrams))
                     ELSE /\ ~run.assigned
                          /\ run.result = Ok(<<>>)
                          /\ run.net = <<"SSDP">>
            /\ run.heard.kind # "datagram" => ret.v.left = datagrams

\* the first datagram has no LOCATION header, the second has one: no device
C16_Witness ==
    /\ Discovered
    /\ Len(arg.socket.datagrams) = 2
    /\ ~HasLocationHeader(arg.socket.datagrams[1])
    /\ HasLocationHeader(arg.socket.datagrams[2])
    /\ ret.v.run.heard.kind = "datagram"
    /\ ~ret.v.run.assigned
    /\ ret.v.run.result = Ok(<<>>)
    /\ Len(ret.v.left) = 1

Extracted == ret.some /\ arg.fn = "extract_location"

\* v is raw without the whitespace at its two ends
IsTrimOf(v, raw) ==
    \E a \in 0..Len(raw) :
        \E b \in a..Len(raw) :
            /\ v = SubSeq(raw, a + 1, b)
            /\ \A k \in 1..a : raw[k] = " "
            /\ \A k \in (b + 1)..Len(raw) : raw[k] = " "
            /\ Len(v) > 0 => (v[1] # " " /\ v[Len(v)] # " ")

\* C17: extract_location returns what follows the first colon of the first
\* line whose header name is LOCATION in any letter case, later colons
\* included, without the whitespace around it; it returns nothing exactly
\* when the response has no such line.
C17_FirstLocationValue ==
    Extracted =>
        IF HasLocationHeader(arg.response)
        THEN LET i == CHOOSE j \in 1..Len(arg.response) :
                          /\ IsLocationLine(arg.response[j])
                          /\ \A h \in 1..(j - 1) :
                                ~IsLocationLine(arg.response[h])
                 line == arg.response[i]
             IN  /\ ret.v.some
                 /\ IsTrimOf(ret.v.v, SubSeq(line, 3, Len(line)))
        ELSE ret.v = None

\* the mixed-case header behind another header: its URL with its colons
C17_Witness ==
    /\ Extracted
    /\ Len(arg.response) = 3
    /\ arg.response[1] = ST_LINE
    /\ arg.response[2][1] = "LoCaTiOn"
    /\ arg.response[3][1] = "LOCATION"
    /\ ret.v = Some(LOC3)

----------------------------------------------------------------------------
(* Properties of the consumers on malformed XML *)

\* C20: when the reader reports a parse error, parse_service_urls returns
\* the URLs of the services closed before the error, or service-not-found
\* if no common-interface service is among them; a SOAP query fails with
\* element-not-found if no character data was read inside its element
\* before the error, and a value it returns was read before the error.
C20_ErrorStopsTraversal ==
    /\ (Parsed /\ arg.errAt > 0) =>
          IF \E i \in 1..Len(arg.services) : IsCommon(arg, i)
          THEN /\ ret.v.ok
               /\ RecordedFrom(ret.v.v.common.v,
                               UrlOf(arg, LastService(arg, IsCommon)))
               /\ ret.v.v.ip.some
                     <=> \E i \in 1..Len(arg.services) : IsIp(arg, i)
          ELSE NotFound
    /\ (Queried /\ arg.sent /\ arg.errAt > 0) =>
          \A j \in 1..Len(ret.v) :
              IF \E k \in 1..Len(arg.items) : HasText(arg, k)
              THEN ret.v[j].result.ok =>
                     IF arg.i = NumQueries
                     THEN ret.v[j].result.v = FirstText(arg)
                     ELSE ret.v[j].result = parse_u64(FirstText(arg))
              ELSE ret.v[j].result = ElementNotFound

\* the error comes in place of the end tag of the second of two
\* common-interface services: the URL of the first is returned
C20_Witness ==
    /\ Parsed
    /\ Len(arg.services) = 2
    /\ arg.services[1] = [types |-> <<TYPE_COMMON>>,
                          url |-> Some(CTL_COMMON_ABS)]
    /\ arg.services[2] = [types |-> <<TYPE_COMMON>>,
                          url |-> Some(CTL_COMMON_REL)]
    /\ arg.errAt = ServiceEndIndex(arg.services, 2)
    /\ ret.v.ok
    /\ ret.v.v.common = Some(CTL_COMMON_ABS)

----------------------------------------------------------------------------
(* Properties of the device a client holds *)

\* a device that is set but has no common-interface URL
Unresolved(dev) == dev.some /\ ~dev.v.wan_common_service_url.some

\* C21: when discover_device on a new client returns success the device
\* is unset, the datagram having no LOCATION header, or set with its
\* common-interface URL; a device that is set without that URL comes into
\* being only in a discover_device call that returns an error.
C21_SuccessMeansResolved ==
    [][\A p \in Procs :
          /\ (pc[p] = "discover" /\ pc'[p] = "discover_ret"
                  /\ cycle[p] = 1 /\ dres'[p].ok) =>
                 /\ ~Unresolved(device'[p])
                 /\ ~device'[p].some => ~HasLocationHeader(heard'[p].data)
          /\ (Unresolved(device'[p]) /\ ~Unresolved(device[p])) =>
                 /\ pc[p] = "discover"
                 /\ Failed(dres'[p])]_vars

\* the first discovery of a client succeeded and left a device with its
\* common-interface URL and no IP-connection URL
C21_Witness ==
    /\ pc[User] = "discover_ret"
    /\ cycle[User] = 1
    /\ dres[User].ok
    /\ device[User].some
    /\ device[User].v.wan_common_service_url.some
    /\ ~device[User].v.wan_ip_service_url.some

----------------------------------------------------------------------------
(* Effect of collect_metrics on the gauges, one request at a time *)

\* the four byte and packet gauges
Counters(g) ==
    <<g.bytes_sent, g.bytes_received, g.packets_sent, g.packets_received>>

SnapshotCounters(st) ==
    <<st.bytes_sent, st.bytes_received, st.packets_sent,
      st.packets_received>>

\* C22: once collect_metrics has stored the scrape-error gauge, a call
\* with a fatal failure has set that gauge to 1 and the connection-status
\* gauge to 0, and a successful call has set the scrape-error gauge to 0,
\* the four counter gauges to the snapshot and the connection-status gauge
\* to 1 exactly when the snapshot's status is "Up"; the counter gauges
\* change in no step but the update of a successful scrape, so a failed
\* call leaves them at the values of the last successful one.
C22_GaugeEffects ==
    [][/\ Counters(gauges') # Counters(gauges) =>
              \E p \in Procs : /\ pc[p] = "gts_ret"
                                /\ caller[p] = "collect_metrics"
                                /\ gres[p].ok
       /\ \A p \in Procs :
          (pc[p] = "set_scrape_error" /\ pc'[p] = "encode") =>
                 /\ (Failed(dres'[p]) \/ Failed(gres'[p])) =>
                        /\ gauges'.scrape_error = 1
                        /\ gauges'.connection_status = 0
                        /\ Counters(gauges') = Counters(gauges)
                 /\ gres'[p].ok =>
                        /\ gauges'.scrape_error = 0
                        /\ Counters(gauges') = SnapshotCounters(gres'[p].v)
                        /\ gauges'.connection_status =
                               (IF gres'[p].v.connection_status = <<"Up">>
                                THEN 1 ELSE 0)
                 /\ Failed(dres'[p]) \/ Failed(gres'[p]) \/ gres'[p].ok]_vars

\* a scrape that failed after a successful one: the error is reported, the
\* link is reported down and the counters still hold the earlier snapshot
C22_Witness ==
    /\ requests = 2
    /\ pc["s1"] = "encode"
    /\ Failed(dres["s1"]) \/ Failed(gres["s1"])
    /\ gauges.scrape_error = 1
    /\ gauges.connection_status = 0
    /\ gauges.bytes_sent > 0

----------------------------------------------------------------------------
(* Several matching services in one description *)

\* services in a document that is read to its end
MaxSiblings == 3

\* whole documents of up to MaxSiblings services
InitSeveral ==
    /\ InitState
    /\ ret = None
    /\ \E n \in 0..MaxSiblings :
          \E shapes \in [1..n -> ServiceShapes] :
             arg = ParseInput(shapes, 0, LOC1)

NextSeveral == parse_service_urls_call

SpecSeveral == InitSeveral /\ [][NextSeveral]_vars

ContainsIp(a, i) ==
    Complete(a, i) /\ contains(TypeOf(a, i), "WANIPConnection")

\* at least two services of the document satisfy Is
Several(a, Is(_, _)) ==
    Cardinality({i \in 1..Len(a.services) : Is(a, i)}) >= 2

\* C23 as stated: of several services whose type contains
\* WANCommonInterfaceConfig the common-interface URL recorded is that of
\* the last one, and of several services whose type contains
\* WANIPConnection the IP-connection URL recorded is that of the last one.
C23_LastContaining ==
    (Parsed /\ ret.v.ok) =>
        /\ Several(arg, IsCommon) =>
               RecordedFrom(ret.v.v.common.v,
                            UrlOf(arg, LastService(arg, IsCommon)))
        /\ Several(arg, ContainsIp) =>
               /\ ret.v.v.ip.some
               /\ RecordedFrom(ret.v.v.ip.v,
                               UrlOf(arg, LastService(arg, ContainsIp)))

\* C23: of several services whose type contains WANCommonInterfaceConfig
\* the common-interface URL recorded is that of the last one in document
\* order; of several services whose type contains WANIPConnection and not
\* WANCommonInterfaceConfig the IP-connection URL recorded is that of the
\* last one.  A service whose type contains both names counts for the
\* common-interface URL only.
C23_LastMatchWins ==
    (Parsed /\ ret.v.ok) =>
        /\ Several(arg, IsCommon) =>
               /\ ret.v.v.common.some
               /\ RecordedFrom(ret.v.v.common.v,
                               UrlOf(arg, LastService(arg, IsCommon)))
        /\ Several(arg, IsIp) =>
               /\ ret.v.v.ip.some
               /\ RecordedFrom(ret.v.v.ip.v,
                               UrlOf(arg, LastService(arg, IsIp)))

\* two IP-connection services with different control URLs before the
\* common-interface service: the second one's is recorded
C23_Witness ==
    /\ Parsed
    /\ Len(arg.services) = 3
    /\ arg.services[1] =
           [types |-> <<TYPE_IP>>, url |-> Some(CTL_COMMON_ABS)]
    /\ arg.services[2] =
           [types |-> <<TYPE_IP>>, url |-> Some(CTL_COMMON_REL)]
    /\ arg.services[3] =
           [types |-> <<TYPE_COMMON>>, url |-> Some(CTL_COMMON_ABS)]
    /\ ret.v.ok
    /\ ret.v.v.ip = Some(FALLBACK_BASE \o CTL_COMMON_REL)
    /\ ret.v.v.common = Some(CTL_COMMON_ABS)

====
